---- MODULE Spec2Model ----
(***************************************************************************)
(* A model of spread_stitcher.py: extraction and validation of a chapter   *)
(* archive, pairing of its pages into spreads, in-place conversion of one  *)
(* archive (convert), assembly of a volume (convert_volume) and the batch  *)
(* dispatch and exit status of main.                                       *)
(*                                                                         *)
(* File names are sequences of character codes compared as Python compares *)
(* strings.  The image suffix is left out of a name, and the colour mode   *)
(* out of an image: no operation modelled here branches on either.  An     *)
(* image is its width, its height, whether it is one uniform white, and px,*)
(* the page contents it shows from left to right.                          *)
(***************************************************************************)
EXTENDS Integers, Sequences, FiniteSets, TLC

VARIABLES
  args,         \* the parsed flags: del_old_cbz, skip_warning_page, volume
  cbzs,         \* the archive paths given on the command line, in order
  fs,           \* the archives on disk: path -> directory listing it packs
  work,         \* the temporary directories: key -> (file name -> image)
  mpc,          \* where main / convert_volume stands
  exit,         \* the exit status of the process, -1 while it runs
  pc,           \* per work unit: where convert / extract_stitch_move stands
  results,      \* per work unit: what the pool's map yields for it
  imgs,         \* per work unit: the list extract returned, popped by stitch
  extract_out,  \* per work unit: the list as extract returned it (history)
  written,      \* per work unit: the files stitch saved, in write order (history)
  hist          \* history: the disk when this invocation began, the run
                \* number, and the page count the previous run's archive had

vars == <<args, cbzs, fs, work, mpc, exit, pc, results, imgs, extract_out,
          written, hist>>

----------------------------------------------------------------------------
(* Bounds of the model *)

\* the largest number of pages of an archive in the single-chapter runs
MaxPages == 4

\* the largest number of archives on the command line
MaxCbzs == 3

----------------------------------------------------------------------------
(* Program constants *)

\* the half-width of the window around the reference width (the literal 100)
Tolerance == 100

----------------------------------------------------------------------------
(* File names and paths *)

RECURSIVE LexLess(_, _)
\* a < b for two Python strings (pathlib compares paths by their strings)
LexLess(a, b) ==
  IF a = <<>> THEN b # <<>>
  ELSE IF b = <<>> THEN FALSE
  ELSE IF Head(a) # Head(b) THEN Head(a) < Head(b)
  ELSE LexLess(Tail(a), Tail(b))

\* the greatest name of a non-empty set of names
MaxName(S) == CHOOSE a \in S : \A b \in S \ {a} : LexLess(b, a)

RECURSIVE sorted_reverse(_)
\* sorted(out.iterdir(), reverse=True)
sorted_reverse(S) ==
  IF S = {} THEN <<>>
  ELSE <<MaxName(S)>> \o sorted_reverse(S \ {MaxName(S)})

RECURSIVE Digits(_)
\* the decimal digits of n, as character codes
Digits(n) == IF n < 10 THEN <<48 + n>> ELSE Digits(n \div 10) \o <<48 + (n % 10)>>

RECURSIVE ZeroPad3(_)
ZeroPad3(s) == IF Len(s) < 3 THEN ZeroPad3(<<48>> \o s) ELSE s

\* f"{n:03d}"
Fmt3(n) == ZeroPad3(Digits(n))

\* the name 'blank<suffix>' of the page extract synthesizes: the letter b
BlankName == <<98>>

\* the file name of a path
NameOf(p) == [stem |-> p.stem, ext |-> p.ext]

\* cbz.with_stem(f"{cbz.stem}_original")
OriginalPath(p) == [p EXCEPT !.stem = Append(@, "_original")]

\* cbz.stem.endswith("_original")
EndsWithOriginal(p) == p.stem[Len(p.stem)] = "_original"

\* the archive written straight to its final path
SamePath(p) == p

\* out.with_name(f"{out.name}.zip"), the file make_archive writes
ZipPath(p) == [p EXCEPT !.zip = TRUE]

\* cbzs[0].parent / f"{cbzs[0].stem}-{cbzs[-1].name}"
final_path(list) ==
  [folder |-> list[1].folder,
   stem   |-> list[1].stem \o <<"-">> \o list[Len(list)].stem,
   ext    |-> list[Len(list)].ext,
   zip    |-> FALSE]

\* a function without the key k
Without(f, k) == [x \in (DOMAIN f) \ {k} |-> f[x]]

\* shutil.move(src, dst) of a file onto a file path (os.rename replaces dst)
MoveFile(files, src, dst) == (dst :> files[src]) @@ Without(files, src)

----------------------------------------------------------------------------
(* Images *)

\* Image.new(mode, (width, height), "white")
BlankImage(width, height) ==
  [w |-> width, h |-> height, white |-> TRUE, px |-> <<0>>]

\* the canvas write_warning_page saves: white with the text in black
WarningImage(width, height) ==
  [w |-> width, h |-> height, white |-> FALSE, px |-> <<1>>]

\* incorrect_dimensions with "and" where the source has "or": a page has to
\* be both wider and taller to count as larger
incorrect_dimensions_both(page, width, height) ==
  \/ (page.w > width /\ page.h > height)
  \/ (page.w * 2 >= (width - Tolerance) /\ page.w * 2 <= (width + Tolerance))

\* incorrect_dimensions(page), with the reference width and height of extract
incorrect_dimensions(page, width, height) ==
  \/ (page.w > width \/ page.h > height)
  \/ (page.w * 2 >= (width - Tolerance) /\ page.w * 2 <= (width + Tolerance))

\* colors is not None and colors[0][1] == white: one colour, and it is white
AllWhite(page) == page.white

----------------------------------------------------------------------------
(* extract *)

\* imgs.append(blank_page_path): the blank at the other end of the list
AppendBlank(list) == Append(list, BlankName)

\* imgs.insert(0, blank_page_path)
InsertBlank(list) == <<BlankName>> \o list

\* extract(cbz, out): what it raises, the list it returns, and the directory
\* out as it leaves it.  dir0 is out as extract finds it.
extract(files, cbz, dir0) ==
  IF cbz \notin DOMAIN files \/ cbz.ext # ".cbz"
  THEN [raised |-> "FileNotFoundError", imgs |-> <<>>, dir |-> dir0]
  ELSE
    LET unpacked == files[cbz] @@ dir0
        sorted   == sorted_reverse(DOMAIN unpacked)
        n        == Len(sorted)
        width    == unpacked[sorted[1]].w
        height   == unpacked[sorted[1]].h
        first_page     == unpacked[sorted[n]]
        first_page_bad == incorrect_dimensions(first_page, width, height)
                            /\ AllWhite(first_page)
        dir1  == IF first_page_bad
                 THEN (BlankName :> BlankImage(width, height)) @@ unpacked
                 ELSE unpacked
        list1 == IF first_page_bad
                 THEN [sorted EXCEPT ![n] = BlankName]
                 ELSE sorted
        wrong == \E i \in 1..n : incorrect_dimensions(dir1[list1[i]], width, height)
        odd   == n % 2 # 0
        dir2  == IF odd /\ BlankName \notin DOMAIN dir1
                 THEN (BlankName :> BlankImage(width, height)) @@ dir1
                 ELSE dir1
        list2 == IF odd THEN InsertBlank(list1) ELSE list1
    IN  IF wrong
        THEN [raised |-> "WrongImageSize", imgs |-> <<>>, dir |-> dir1]
        ELSE [raised |-> "", imgs |-> list2, dir |-> dir2]

----------------------------------------------------------------------------
(* stitch *)

\* the spread with the two pages pasted the other way round
SpreadSwapped(img1, img2, width, height) ==
  [left  |-> img2,
   right |-> img1,
   img   |-> [w |-> width * 2, h |-> height,
              white |-> img1.white /\ img2.white,
              px |-> img2.px \o img1.px]]

\* the spread one pass of the loop saves: img1 pasted at (0, 0) and img2 at
\* (width, 0) of a white canvas of (width * 2, height)
Spread(img1, img2, width, height) ==
  [left  |-> img1,
   right |-> img2,
   img   |-> [w |-> width * 2, h |-> height,
              white |-> img1.white /\ img2.white,
              px |-> img1.px \o img2.px]]

\* the name stitch gives page number pagenum
PageName(pagenum) == Fmt3(pagenum)

RECURSIVE StitchLoop(_, _, _, _, _, _)
\* while len(imgs) >= 2: pop two, save the spread as pagenum, count on
StitchLoop(dir, list, pagenum, width, height, log) ==
  IF Len(list) >= 2
  THEN LET s == Spread(dir[list[1]], dir[list[2]], width, height)
       IN  StitchLoop(dir, Tail(Tail(list)), pagenum + 1, width, height,
                      Append(log, [name |-> PageName(pagenum), num |-> pagenum,
                                   kind |-> "spread", left |-> s.left,
                                   right |-> s.right, img |-> s.img]))
  ELSE [imgs |-> list, log |-> log]

\* whether stitch writes the warning page
WantsWarning(list, skip_warning_page) == ~skip_warning_page /\ Len(list) > 2

\* stitch(imgs, out, skip_warning_page): the list as it leaves it and the
\* files it saves, in order
stitch(dir, list, skip_warning_page) ==
  LET first_img == dir[list[1]]
      width     == first_img.w
      height    == first_img.h
      warn      == WantsWarning(list, skip_warning_page)
      page      == WarningImage(width * 2, height)
      log0      == IF warn
                   THEN << [name |-> PageName(1), num |-> 1, kind |-> "warning",
                            left |-> page, right |-> page, img |-> page] >>
                   ELSE << >>
  IN  StitchLoop(dir, list, IF warn THEN 2 ELSE 1, width, height, log0)

\* the directory holding the files of a write log (a later write replaces)
DirOf(log) ==
  [nm \in {log[i].name : i \in 1..Len(log)} |->
     log[CHOOSE i \in 1..Len(log) :
           log[i].name = nm /\ \A j \in (i+1)..Len(log) : log[j].name # nm].img]

----------------------------------------------------------------------------
(* Work units, their directories and the pool *)

Units == 1..Len(cbzs)

\* main: if args.volume and len(args.cbzs) > 1
IsVolume == args.volume /\ Len(cbzs) > 1

\* enumerate(cbzs, start=1): the list not reversed
VolnumForward(i, n) == i

\* enumerate(reversed(cbzs), start=1): the number paired with cbzs[i], 1-based
Volnum(i, n) == n - i + 1

NoName == [stem |-> <<>>, ext |-> ""]

EmptyDir == [x \in {} |-> x]

\* convert: WORKDIR / "archive" of the unit's own TemporaryDirectory
ConvertArchiveDir(u) == [tmp |-> u, kind |-> "archive", name |-> NoName]

\* convert: WORKDIR / "out" of the unit's own TemporaryDirectory
ConvertOutDir(u) == [tmp |-> u, kind |-> "out", name |-> NoName]

\* extract_stitch_move: workdir / f"archive_{cbz.name}"
VolumeArchiveDir(u) == [tmp |-> 0, kind |-> "archive", name |-> NameOf(cbzs[u])]

\* extract_stitch_move: workdir / f"out_{cbz.name}"
VolumeOutDir(u) == [tmp |-> 0, kind |-> "out", name |-> NameOf(cbzs[u])]

\* convert_volume: WORKDIR / "vol"
VOLDIR == [tmp |-> 0, kind |-> "vol", name |-> NoName]

ArchiveDir(u) == IF IsVolume THEN VolumeArchiveDir(u) ELSE ConvertArchiveDir(u)

OutDir(u) == IF IsVolume THEN VolumeOutDir(u) ELSE ConvertOutDir(u)

\* leaving "with tempfile.TemporaryDirectory()": its directories are removed
Cleanup(w, t) == [k \in {k \in DOMAIN w : k.tmp # t} |-> w[k]]

\* voldir / f"{volnum:03d}_{img.name}"
VolumeName(volnum, name) == Fmt3(volnum) \o <<95>> \o name

\* VOLDIR / f"000_000{img_path.suffix}"
WarningName == Fmt3(0) \o <<95>> \o Fmt3(0)

\* a unit that has returned or raised
Finished(u) == pc[u] \in {"done", "skipped", "conflict", "failed", "crashed"}

\* any(results) in the place of all(results)
any(res) ==
  IF \E u \in DOMAIN res : res[u] = "true" THEN "true" ELSE "false"

\* all(results) over the results of the pool's map: an exception a worker
\* raised is raised again when its result is reached
all(res) ==
  IF \A u \in DOMAIN res : res[u] = "true" THEN "true"
  ELSE IF \E u \in DOMAIN res : res[u] = "raised"
            /\ \A v \in DOMAIN res : v < u => res[v] = "true"
       THEN "raised"
       ELSE "false"

----------------------------------------------------------------------------
(* main *)

\* main up to the dispatch of the pool; for a volume, convert_volume up to it
main_start ==
  /\ mpc = "start"
  /\ IF IsVolume /\ final_path(cbzs) \in DOMAIN fs
     THEN /\ mpc' = "exited"
          /\ exit' = 1
          /\ UNCHANGED <<work, pc>>
     ELSE /\ mpc' = "pool"
          /\ work' = IF IsVolume THEN (VOLDIR :> EmptyDir) @@ work ELSE work
          /\ pc' = [u \in Units |-> "queued"]
          /\ UNCHANGED exit
  /\ UNCHANGED <<args, cbzs, fs, results, imgs, extract_out, written, hist>>

\* main, batch: the pool has been left; exit(1) unless all(results)
main_exit ==
  /\ mpc = "pool"
  /\ ~IsVolume
  /\ \A u \in Units : Finished(u)
  /\ mpc' = "exited"
  /\ exit' = IF all(results) = "true" THEN 0 ELSE 1
  /\ UNCHANGED <<args, cbzs, fs, work, pc, results, imgs, extract_out, written, hist>>

----------------------------------------------------------------------------
(* convert, called by process_convert in a pool worker *)

\* convert: the two naming checks; FileExistsError makes process_convert
\* return False
convert_guard(u) ==
  /\ mpc = "pool" /\ ~IsVolume
  /\ pc[u] = "queued"
  /\ IF ~args.del_old_cbz
          /\ (OriginalPath(cbzs[u]) \in DOMAIN fs \/ EndsWithOriginal(cbzs[u]))
     THEN /\ pc' = [pc EXCEPT ![u] = "conflict"]
          /\ results' = [results EXCEPT ![u] = "false"]
     ELSE /\ pc' = [pc EXCEPT ![u] = "guarded"]
          /\ UNCHANGED results
  /\ UNCHANGED <<args, cbzs, fs, work, mpc, exit, imgs, extract_out, written, hist>>

\* convert: ARCHIVEDIR.mkdir() and extract; on FileNotFoundError or
\* WrongImageSize convert logs and returns, and process_convert returns True
convert_extract(u) ==
  /\ pc[u] = "guarded"
  /\ LET r == extract(fs, cbzs[u], EmptyDir)
     IN  IF r.raised # ""
         THEN /\ pc' = [pc EXCEPT ![u] = "skipped"]
              /\ results' = [results EXCEPT ![u] = "true"]
              /\ work' = Cleanup(work, u)
              /\ UNCHANGED <<imgs, extract_out>>
         ELSE /\ pc' = [pc EXCEPT ![u] = "extracted"]
              /\ work' = (ConvertArchiveDir(u) :> r.dir) @@ work
              /\ imgs' = [imgs EXCEPT ![u] = r.imgs]
              /\ extract_out' = [extract_out EXCEPT ![u] = r.imgs]
              /\ UNCHANGED results
  /\ UNCHANGED <<args, cbzs, fs, mpc, exit, written, hist>>

\* convert: OUTDIR.mkdir() and stitch(imgs, OUTDIR, skip_warning_page)
convert_stitch(u) ==
  /\ ~IsVolume
  /\ pc[u] = "extracted"
  /\ LET s == stitch(work[ConvertArchiveDir(u)], imgs[u], args.skip_warning_page)
     IN  /\ imgs' = [imgs EXCEPT ![u] = s.imgs]
         /\ written' = [written EXCEPT ![u] = s.log]
         /\ work' = (ConvertOutDir(u) :> DirOf(s.log)) @@ work
  /\ pc' = [pc EXCEPT ![u] = "stitched"]
  /\ UNCHANGED <<args, cbzs, fs, mpc, exit, results, extract_out, hist>>

\* convert: if not del_old_cbz: shutil.move(cbz, ORIGINALCBZPATH)
convert_move_aside(u) ==
  /\ ~IsVolume
  /\ pc[u] = "stitched"
  /\ IF args.del_old_cbz
     THEN /\ pc' = [pc EXCEPT ![u] = "staged"]
          /\ UNCHANGED <<fs, work, results>>
     ELSE IF cbzs[u] \in DOMAIN fs
     THEN /\ fs' = MoveFile(fs, cbzs[u], OriginalPath(cbzs[u]))
          /\ pc' = [pc EXCEPT ![u] = "staged"]
          /\ UNCHANGED <<work, results>>
     ELSE /\ pc' = [pc EXCEPT ![u] = "crashed"]
          /\ results' = [results EXCEPT ![u] = "raised"]
          /\ work' = Cleanup(work, u)
          /\ UNCHANGED fs
  /\ UNCHANGED <<args, cbzs, mpc, exit, imgs, extract_out, written, hist>>

\* create_cbz(OUTDIR, cbz): shutil.make_archive(str(out), "zip", img_dir)
convert_make_archive(u) ==
  /\ ~IsVolume
  /\ pc[u] = "staged"
  /\ fs' = (ZipPath(cbzs[u]) :> work[ConvertOutDir(u)]) @@ fs
  /\ pc' = [pc EXCEPT ![u] = "zipped"]
  /\ UNCHANGED <<args, cbzs, work, mpc, exit, results, imgs, extract_out, written, hist>>

\* create_cbz(OUTDIR, cbz): shutil.move(out.with_name(f"{out.name}.zip"), out);
\* then convert returns and process_convert returns True
convert_move_zip(u) ==
  /\ ~IsVolume
  /\ pc[u] = "zipped"
  /\ IF ZipPath(cbzs[u]) \in DOMAIN fs
     THEN /\ fs' = MoveFile(fs, ZipPath(cbzs[u]), cbzs[u])
          /\ pc' = [pc EXCEPT ![u] = "done"]
          /\ results' = [results EXCEPT ![u] = "true"]
     ELSE /\ pc' = [pc EXCEPT ![u] = "crashed"]
          /\ results' = [results EXCEPT ![u] = "raised"]
          /\ UNCHANGED fs
  /\ work' = Cleanup(work, u)
  /\ UNCHANGED <<args, cbzs, mpc, exit, imgs, extract_out, written, hist>>

----------------------------------------------------------------------------
(* extract_stitch_move, called by convert_volume's pool *)

\* extract_stitch_move: ARCHIVEDIR.mkdir(), which raises FileExistsError when
\* the directory is there already
esm_mkdir(u) ==
  /\ mpc = "pool" /\ IsVolume
  /\ pc[u] = "queued"
  /\ IF VolumeArchiveDir(u) \in DOMAIN work
     THEN /\ pc' = [pc EXCEPT ![u] = "crashed"]
          /\ results' = [results EXCEPT ![u] = "raised"]
          /\ UNCHANGED work
     ELSE /\ pc' = [pc EXCEPT ![u] = "made"]
          /\ work' = (VolumeArchiveDir(u) :> EmptyDir) @@ work
          /\ UNCHANGED results
  /\ UNCHANGED <<args, cbzs, fs, mpc, exit, imgs, extract_out, written, hist>>

\* extract_stitch_move: extract; on FileNotFoundError or WrongImageSize it
\* logs and returns False
esm_extract(u) ==
  /\ pc[u] = "made"
  /\ LET r == extract(fs, cbzs[u], work[VolumeArchiveDir(u)])
     IN  /\ work' = [work EXCEPT ![VolumeArchiveDir(u)] = r.dir]
         /\ IF r.raised # ""
            THEN /\ pc' = [pc EXCEPT ![u] = "failed"]
                 /\ results' = [results EXCEPT ![u] = "false"]
                 /\ UNCHANGED <<imgs, extract_out>>
            ELSE /\ pc' = [pc EXCEPT ![u] = "extracted"]
                 /\ imgs' = [imgs EXCEPT ![u] = r.imgs]
                 /\ extract_out' = [extract_out EXCEPT ![u] = r.imgs]
                 /\ UNCHANGED results
  /\ UNCHANGED <<args, cbzs, fs, mpc, exit, written, hist>>

\* extract_stitch_move: OUTDIR.mkdir() and stitch(imgs, OUTDIR,
\* skip_warning_page=True)
esm_stitch(u) ==
  /\ IsVolume
  /\ pc[u] = "extracted"
  /\ IF VolumeOutDir(u) \in DOMAIN work
     THEN /\ pc' = [pc EXCEPT ![u] = "crashed"]
          /\ results' = [results EXCEPT ![u] = "raised"]
          /\ UNCHANGED <<work, imgs, written>>
     ELSE LET s == stitch(work[VolumeArchiveDir(u)], imgs[u], TRUE)
          IN  /\ imgs' = [imgs EXCEPT ![u] = s.imgs]
              /\ written' = [written EXCEPT ![u] = s.log]
              /\ work' = (VolumeOutDir(u) :> DirOf(s.log)) @@ work
              /\ pc' = [pc EXCEPT ![u] = "stitched"]
              /\ UNCHANGED results
  /\ UNCHANGED <<args, cbzs, fs, mpc, exit, extract_out, hist>>

\* extract_stitch_move: one pass of "for img in OUTDIR.iterdir():
\* shutil.move(img, voldir / f"{volnum:03d}_{img.name}")"
esm_move(u) ==
  /\ IsVolume
  /\ pc[u] = "stitched"
  /\ \E name \in DOMAIN work[VolumeOutDir(u)] :
       work' = [work EXCEPT
                  ![VOLDIR] = (VolumeName(Volnum(u, Len(cbzs)), name)
                                 :> work[VolumeOutDir(u)][name]) @@ @,
                  ![VolumeOutDir(u)] = Without(@, name)]
  /\ UNCHANGED <<args, cbzs, fs, mpc, exit, pc, results, imgs, extract_out,
                 written, hist>>

\* extract_stitch_move: the loop is over, return True
esm_return(u) ==
  /\ IsVolume
  /\ pc[u] = "stitched"
  /\ DOMAIN work[VolumeOutDir(u)] = {}
  /\ pc' = [pc EXCEPT ![u] = "done"]
  /\ results' = [results EXCEPT ![u] = "true"]
  /\ UNCHANGED <<args, cbzs, fs, work, mpc, exit, imgs, extract_out, written, hist>>

----------------------------------------------------------------------------
(* convert_volume, after the pool *)

\* convert_volume: the pool has been left; "if not all(results): raise
\* ChildProcessError", which main answers with exit(1), as it answers the
\* FileExistsError of a worker
volume_collect ==
  /\ mpc = "pool" /\ IsVolume
  /\ \A u \in Units : Finished(u)
  /\ IF all(results) = "true"
     THEN /\ mpc' = "collected"
          /\ UNCHANGED <<exit, work>>
     ELSE /\ mpc' = "exited"
          /\ exit' = 1
          /\ work' = Cleanup(work, 0)
  /\ UNCHANGED <<args, cbzs, fs, pc, results, imgs, extract_out, written, hist>>

\* convert_volume: the shared warning page, with the size of any one of the
\* stitched images in VOLDIR
volume_warning ==
  /\ mpc = "collected"
  /\ IF args.skip_warning_page
     THEN UNCHANGED work
     ELSE \E img_path \in DOMAIN work[VOLDIR] :
            work' = [work EXCEPT ![VOLDIR] =
                       (WarningName :> WarningImage(work[VOLDIR][img_path].w,
                                                    work[VOLDIR][img_path].h)) @@ @]
  /\ mpc' = "warned"
  /\ UNCHANGED <<args, cbzs, fs, exit, pc, results, imgs, extract_out, written, hist>>

\* create_cbz(VOLDIR, final_path): shutil.make_archive
volume_make_archive ==
  /\ mpc = "warned"
  /\ fs' = (ZipPath(final_path(cbzs)) :> work[VOLDIR]) @@ fs
  /\ mpc' = "zipped"
  /\ UNCHANGED <<args, cbzs, work, exit, pc, results, imgs, extract_out, written, hist>>

\* create_cbz(VOLDIR, final_path): shutil.move of the .zip onto final_path
volume_move_zip ==
  /\ mpc = "zipped"
  /\ fs' = MoveFile(fs, ZipPath(final_path(cbzs)), final_path(cbzs))
  /\ mpc' = "built"
  /\ UNCHANGED <<args, cbzs, work, exit, pc, results, imgs, extract_out, written, hist>>

\* convert_volume: "if del_old_cbz: for cbz in cbzs: cbz.unlink()", and the
\* return to main, which ends with status 0
volume_unlink ==
  /\ mpc = "built"
  /\ fs' = IF args.del_old_cbz
           THEN [p \in (DOMAIN fs) \ {cbzs[i] : i \in Units} |-> fs[p]]
           ELSE fs
  /\ work' = Cleanup(work, 0)
  /\ mpc' = "exited"
  /\ exit' = 0
  /\ UNCHANGED <<args, cbzs, pc, results, imgs, extract_out, written, hist>>

----------------------------------------------------------------------------
(* Running the converter once more on what it produced *)

\* a second run of main on the same path, with -d and -w, once the first run
\* has converted the archive
main_again ==
  /\ mpc = "exited"
  /\ hist.run = 1
  /\ Len(cbzs) = 1 /\ pc[1] = "done"
  /\ args' = [del_old_cbz |-> TRUE, skip_warning_page |-> TRUE, volume |-> FALSE]
  /\ mpc' = "start"
  /\ exit' = -1
  /\ pc' = [u \in Units |-> "idle"]
  /\ results' = [u \in Units |-> "none"]
  /\ imgs' = [u \in Units |-> <<>>]
  /\ extract_out' = [u \in Units |-> <<>>]
  /\ written' = [u \in Units |-> <<>>]
  /\ hist' = [fs0 |-> fs, run |-> 2, m |-> Cardinality(DOMAIN fs[cbzs[1]])]
  /\ UNCHANGED <<cbzs, fs, work>>

----------------------------------------------------------------------------
(* Inputs *)

Flags == [del_old_cbz : BOOLEAN, skip_warning_page : BOOLEAN, volume : BOOLEAN]

Normal     == [w |-> 1000, h |-> 1500, white |-> FALSE]
Smaller    == [w |-> 990,  h |-> 1490, white |-> FALSE]
LargeWhite == [w |-> 1200, h |-> 1800, white |-> TRUE]
Wider      == [w |-> 1200, h |-> 1500, white |-> FALSE]
Half       == [w |-> 500,  h |-> 1500, white |-> FALSE]

PageKinds == {Normal, Smaller, LargeWhite, Wider, Half}

\* a page of an input archive: px is what it shows, told apart by tag and name
Page(kind, tag, name) ==
  [w |-> kind.w, h |-> kind.h, white |-> kind.white, px |-> <<tag>> \o name]

\* the names a, b, c, ... of n entries, one of them 'blank<suffix>' when n > 1
NamesWithBlank(n) == { <<96 + i>> : i \in 1..n }

\* the names a, c, d, ... of n entries, none of them 'blank<suffix>'
NamesWithoutBlank(n) == { <<IF i = 1 THEN 97 ELSE 97 + i>> : i \in 1..n }

\* the archives of 1..MaxPages pages of the kinds above
ChapterArchives ==
  UNION { { [nm \in names |-> Page(f[nm], 1, nm)] : f \in [names -> PageKinds] } :
            names \in UNION { {NamesWithBlank(n), NamesWithoutBlank(n)} :
                                n \in 1..MaxPages } }

\* the archive whose entries a, c, d, ... in this order are of the given kinds
ArchiveOf(tag, kinds) ==
  [nm \in NamesWithoutBlank(Len(kinds)) |->
     Page(kinds[CHOOSE i \in 1..Len(kinds) :
                  nm = <<IF i = 1 THEN 97 ELSE 97 + i>>], tag, nm)]

CbzPath(folder, stem, ext) ==
  [folder |-> folder, stem |-> stem, ext |-> ext, zip |-> FALSE]

ChapterPath == CbzPath("a", <<"ch1">>, ".cbz")

InitState(list, flags, files) ==
  /\ cbzs = list
  /\ args = flags
  /\ fs = files
  /\ work = EmptyDir
  /\ mpc = "start"
  /\ exit = -1
  /\ pc = [u \in 1..Len(list) |-> "idle"]
  /\ results = [u \in 1..Len(list) |-> "none"]
  /\ imgs = [u \in 1..Len(list) |-> <<>>]
  /\ extract_out = [u \in 1..Len(list) |-> <<>>]
  /\ written = [u \in 1..Len(list) |-> <<>>]
  /\ hist = [fs0 |-> files, run |-> 1, m |-> 0]

\* one archive of any content, converted in place, with or without an
\* '_original' sibling on disk
InitChapter ==
  \E archive \in ChapterArchives, sibling \in BOOLEAN,
     flags \in {f \in Flags : ~f.volume} :
    InitState(<<ChapterPath>>, flags,
              IF sibling
              THEN (ChapterPath :> archive)
                     @@ (OriginalPath(ChapterPath) :> ArchiveOf(9, <<Normal, Normal>>))
              ELSE (ChapterPath :> archive))

NextChapter ==
  \/ main_start
  \/ main_exit
  \/ main_again
  \/ \E u \in Units : convert_guard(u)
  \/ \E u \in Units : convert_extract(u)
  \/ \E u \in Units : convert_stitch(u)
  \/ \E u \in Units : convert_move_aside(u)
  \/ \E u \in Units : convert_make_archive(u)
  \/ \E u \in Units : convert_move_zip(u)

SpecChapter == InitChapter /\ [][NextChapter]_vars

----------------------------------------------------------------------------
(* Batches and volumes *)

PathA == CbzPath("a", <<"ch1">>, ".cbz")
PathB == CbzPath("b", <<"ch1">>, ".cbz")
PathC == CbzPath("a", <<"ch2">>, ".cbz")
PathD == CbzPath("a", <<"ch3">>, ".cbz")
PathE == CbzPath("a", <<"ch4">>, ".zip")
PathF == CbzPath("a", <<"ch5", "_original">>, ".cbz")
PathG == CbzPath("a", <<"ch6">>, ".cbz")
PathH == CbzPath("a", <<"ch7">>, ".cbz")

\* the disk: a/ch1.cbz and b/ch1.cbz have the same file name, b/ch1.cbz has
\* its '_original' sibling already, a/ch2.cbz has a page wider than its
\* last one, a/ch3.cbz is missing, a/ch4.zip has the wrong suffix
Disk ==
  (PathA :> ArchiveOf(1, <<Normal, Normal>>))
    @@ (PathB :> ArchiveOf(2, <<Normal, Smaller, Normal>>))
    @@ (OriginalPath(PathB) :> ArchiveOf(9, <<Normal, Normal>>))
    @@ (PathC :> ArchiveOf(3, <<Wider, Normal>>))
    @@ (PathE :> ArchiveOf(5, <<Normal, Normal>>))
    @@ (PathF :> ArchiveOf(6, <<Normal, Normal>>))
    @@ (PathG :> ArchiveOf(7, <<Smaller, Normal, Normal>>))
    @@ (PathH :> ArchiveOf(8, <<Smaller, Normal>>))

BatchPaths == {PathA, PathB, PathC, PathD, PathE, PathF}

VolumePaths == {PathA, PathC, PathG, PathH}

\* the disk, with an archive at the path of the combined volume or without
DiskWith(list, final_exists) ==
  IF final_exists
  THEN (final_path(list) :> ArchiveOf(9, <<Normal, Normal>>)) @@ Disk
  ELSE Disk

\* main on one or more paths, in either mode
InitMain ==
  \E n \in 1..MaxCbzs, flags \in Flags, final_exists \in BOOLEAN :
    \E list \in [1..n -> BatchPaths] :
      /\ final_exists => (flags.volume /\ n > 1)
      /\ InitState(list, flags, DiskWith(list, final_exists))

\* main -v on two or more paths
InitVolume ==
  \E n \in 2..MaxCbzs, flags \in {f \in Flags : f.volume},
     final_exists \in BOOLEAN :
    \E list \in [1..n -> VolumePaths] :
      InitState(list, flags, DiskWith(list, final_exists))

NextVolume ==
  \/ main_start
  \/ \E u \in Units : esm_mkdir(u)
  \/ \E u \in Units : esm_extract(u)
  \/ \E u \in Units : esm_stitch(u)
  \/ \E u \in Units : esm_move(u)
  \/ \E u \in Units : esm_return(u)
  \/ volume_collect
  \/ volume_warning
  \/ volume_make_archive
  \/ volume_move_zip
  \/ volume_unlink

NextMain ==
  \/ main_exit
  \/ \E u \in Units : convert_guard(u)
  \/ \E u \in Units : convert_extract(u)
  \/ \E u \in Units : convert_stitch(u)
  \/ \E u \in Units : convert_move_aside(u)
  \/ \E u \in Units : convert_make_archive(u)
  \/ \E u \in Units : convert_move_zip(u)
  \/ NextVolume

SpecMain == InitMain /\ [][NextMain]_vars

SpecVolume == InitVolume /\ [][NextVolume]_vars

----------------------------------------------------------------------------
(* What the properties below speak of *)

\* the archive unit u was given, as it was when the invocation began
InputArchive(u) == hist.fs0[cbzs[u]]

\* N, the number of pages of the chapter
PageCount(u) == Cardinality(DOMAIN InputArchive(u))

\* the first page in descending filename order
Reference(u) == InputArchive(u)[MaxName(DOMAIN InputArchive(u))]

\* ceil(n / 2)
Ceil2(n) == (n + 1) \div 2

\* the pages of the chapter in descending filename order
Descending(u) == sorted_reverse(DOMAIN InputArchive(u))

\* the directory extract unpacked unit u's archive into
Extracted(u) == work[ArchiveDir(u)]

\* w: 1 if stitch was asked for the warning page and the chapter has more
\* than 2 pages
WarningCount(u) ==
  IF ~IsVolume /\ ~args.skip_warning_page /\ PageCount(u) > 2 THEN 1 ELSE 0

\* doubling the width lands in the window around the reference width
InWindow(page, ref) ==
  page.w * 2 >= ref.w - Tolerance /\ page.w * 2 <= ref.w + Tolerance

----------------------------------------------------------------------------
(* C2 *)

----------------------------------------------------------------------------
(* C3 *)

\* the part of C3 that counts: the sequence grows by one exactly when N is
\* odd, stitch writes ceil(N/2) + w files, and the k-th file written is
\* numbered k
OutputCount ==
  \A u \in Units : pc[u] = "stitched" =>
    /\ Len(extract_out[u]) = PageCount(u) + (PageCount(u) % 2)
    /\ Len(written[u]) = Ceil2(PageCount(u)) + WarningCount(u)
    /\ \A k \in 1..Len(written[u]) :
         written[u][k].num = k /\ written[u][k].name = Fmt3(k)

\* C3: extract followed by stitch inserts exactly one synthetic blank page
\* when N is odd and none when N is even, and writes exactly ceil(N/2) + w
\* files, numbered 1, 2, ..., ceil(N/2) + w in write order.
C3_BlankAndCount ==
  /\ OutputCount
  /\ \A u \in Units : (pc[u] = "stitched" /\ PageCount(u) % 2 = 1) =>
       /\ extract_out[u][1] = BlankName
       /\ Extracted(u)[BlankName] = BlankImage(Reference(u).w, Reference(u).h)

----------------------------------------------------------------------------
(* C4 *)

\* C4: for the validated sequence s of length 2m, stitch writes m spreads
\* after the optional warning page, the k-th with s[2k-1] in its left half
\* and s[2k] in its right half, and s is drained when stitch returns.
C4_PairsInOrder ==
  \A u \in Units : pc[u] = "stitched" =>
    LET s == extract_out[u]
        m == Len(s) \div 2
        w == Len(written[u]) - m
    IN  /\ imgs[u] = <<>>
        /\ Len(s) = 2 * m
        /\ w \in {0, 1}
        /\ \A k \in 1..w : written[u][k].kind = "warning"
        /\ \A k \in 1..m :
             /\ written[u][w + k].kind = "spread"
             /\ written[u][w + k].left = Extracted(u)[s[2 * k - 1]]
             /\ written[u][w + k].right = Extracted(u)[s[2 * k]]
             /\ written[u][w + k].img.px =
                  Extracted(u)[s[2 * k - 1]].px \o Extracted(u)[s[2 * k]].px

\* stitch has paired four pages into two spreads after a warning page
C4_Witness ==
  \E u \in Units :
    /\ pc[u] = "stitched"
    /\ PageCount(u) = 4
    /\ Len(written[u]) = 3
    /\ written[u][2].img.px = <<1, 101, 1, 100>>
    /\ written[u][3].img.px = <<1, 99, 1, 97>>

----------------------------------------------------------------------------
(* C5 *)

\* C5, as claimed: when N is odd the blank is put in the chronologically
\* oldest slot, so that the spread of the chronologically first page (the
\* last one written) is the one that holds the blank.
C5_BlankWithFirstPage ==
  \A u \in Units : (pc[u] = "stitched" /\ PageCount(u) % 2 = 1) =>
    LET s == extract_out[u]
        last == written[u][Len(written[u])]
    IN  /\ s[Len(s) - 1] = BlankName
        /\ last.left = Extracted(u)[BlankName]
        /\ last.right = Extracted(u)[s[Len(s)]]

\* C5, amended: when N is odd the path of the blank page is put at the
\* front of the descending sequence, next to the chronologically last page
\* (highest filename): the first spread shows the file at that path on the
\* left and the chronologically last page on the right, and every later
\* spread pairs two neighbours of the descending order (the chronologically
\* first page replaced by the blank if it was a white page of wrong size).
C5_BlankWithLastPage ==
  \A u \in Units : (pc[u] = "stitched" /\ PageCount(u) % 2 = 1) =>
    LET s == extract_out[u]
        d == Descending(u)
        n == PageCount(u)
        w == WarningCount(u)
    IN  /\ s[1] = BlankName
        /\ s[2] = MaxName(DOMAIN InputArchive(u))
        /\ written[u][w + 1].left = Extracted(u)[BlankName]
        /\ written[u][w + 1].right = Extracted(u)[d[1]]
        /\ \A i \in 1..n : s[i + 1] = d[i] \/ (i = n /\ i > 1 /\ s[i + 1] = BlankName)
        /\ \A k \in 2..Ceil2(n) :
             /\ written[u][w + k].left = Extracted(u)[s[2 * k - 1]]
             /\ written[u][w + k].right = Extracted(u)[s[2 * k]]

\* a chapter of three pages has been stitched
C5_Witness ==
  \E u \in Units :
    /\ pc[u] = "stitched"
    /\ PageCount(u) = 3
    /\ Len(written[u]) >= 2

----------------------------------------------------------------------------
(* C7 *)

\* what is on disk now is what was there when the invocation began, but for
\* the path p
SameButFor(p) ==
  /\ (DOMAIN fs) \ {p} = (DOMAIN hist.fs0) \ {p}
  /\ \A q \in (DOMAIN fs) \ {p} : fs[q] = hist.fs0[q]

\* C7, as claimed: while loading, validation, stitching or building of the
\* new archive has not completed, or has failed, the original archive is
\* still at its path, unmodified, and no '_original' sibling has been made.
C7_OriginalUntilBuilt ==
  \A u \in Units : pc[u] # "done" =>
    /\ cbzs[u] \in DOMAIN fs
    /\ fs[cbzs[u]] = hist.fs0[cbzs[u]]
    /\ OriginalPath(cbzs[u]) \in DOMAIN fs
         => OriginalPath(cbzs[u]) \in DOMAIN hist.fs0

\* C7, amended: while loading, validation or stitching has not completed, or
\* has failed, the disk is as convert found it.  After stitching, with
\* del_old_cbz false the original is renamed to its '_original' sibling
\* before the new archive is built, so that while it is built the original
\* path is empty; with del_old_cbz true the original stays at its path,
\* unmodified, until the last step of create_cbz replaces it.
C7_OriginalUntilStitched ==
  \A u \in Units :
    /\ pc[u] \in {"idle", "queued", "guarded", "extracted", "stitched",
                  "conflict", "skipped"}
         => fs = hist.fs0
    /\ (pc[u] \in {"staged", "zipped"} /\ args.del_old_cbz)
         => /\ SameButFor(ZipPath(cbzs[u]))
            /\ fs[cbzs[u]] = hist.fs0[cbzs[u]]
    /\ (pc[u] \in {"staged", "zipped"} /\ ~args.del_old_cbz)
         => /\ cbzs[u] \notin DOMAIN fs
            /\ fs[OriginalPath(cbzs[u])] = hist.fs0[cbzs[u]]
    /\ pc[u] = "done"
         => /\ fs[cbzs[u]] = DirOf(written[u])
            /\ ZipPath(cbzs[u]) \notin DOMAIN fs
            /\ ~args.del_old_cbz
                 => fs[OriginalPath(cbzs[u])] = hist.fs0[cbzs[u]]

\* the original has been renamed aside and the new archive is not built yet
C7_Witness ==
  \E u \in Units :
    /\ pc[u] = "staged"
    /\ ~args.del_old_cbz
    /\ cbzs[u] \notin DOMAIN fs
    /\ OriginalPath(cbzs[u]) \in DOMAIN fs

----------------------------------------------------------------------------
(* C8 *)

\* C8: running the converter again, with -d and -w, on the archive of M
\* spreads a first run produced yields an archive of exactly M pages, or is
\* refused; the spreads are never paired again.
C8_RoundTrip ==
  (hist.run = 2 /\ pc[1] = "done") =>
    Cardinality(DOMAIN fs[cbzs[1]]) = hist.m

----------------------------------------------------------------------------
(* C1 *)

\* C1: exit status 0 implies that every input chapter was converted.
C1_ExitStatus ==
  (mpc = "exited" /\ exit = 0) => \A u \in Units : pc[u] = "done"

----------------------------------------------------------------------------
(* C10 *)

\* what unit u comes to when no other unit runs
SoloOutcome(u) ==
  LET r == extract(hist.fs0, cbzs[u], EmptyDir)
  IN  IF ~IsVolume /\ ~args.del_old_cbz
           /\ (OriginalPath(cbzs[u]) \in DOMAIN hist.fs0 \/ EndsWithOriginal(cbzs[u]))
      THEN [pc |-> "conflict", log |-> <<>>]
      ELSE IF r.raised # ""
      THEN [pc |-> IF IsVolume THEN "failed" ELSE "skipped", log |-> <<>>]
      ELSE [pc |-> "done",
            log |-> stitch(r.dir, r.imgs, IsVolume \/ args.skip_warning_page).log]

\* C10: the units of one invocation work in directories of their own, so
\* that no interleaving makes a unit fail, or changes what it writes,
\* because of another unit.
C10_Isolated ==
  \A u \in Units : Finished(u) =>
    /\ pc[u] = SoloOutcome(u).pc
    /\ written[u] = SoloOutcome(u).log

----------------------------------------------------------------------------
(* C6 *)

\* C6: in convert_volume, once a chapter's unit has failed nothing is ever
\* written at the combined output path and no original is deleted; the
\* combined archive is created only when every unit has completed
\* successfully, and originals are deleted only after it has been created.
C6_NoPartialVolume ==
  IsVolume =>
    /\ (\E u \in Units : Finished(u) /\ results[u] # "true") => fs = hist.fs0
    /\ fs # hist.fs0 => \A u \in Units : pc[u] = "done" /\ results[u] = "true"
    /\ (\E u \in Units : cbzs[u] \in DOMAIN hist.fs0 /\ cbzs[u] \notin DOMAIN fs)
         => /\ args.del_old_cbz
            /\ final_path(cbzs) \in DOMAIN fs
            /\ fs[final_path(cbzs)] # hist.fs0[cbzs[1]]
    /\ (mpc = "exited" /\ exit = 0)
         => /\ final_path(cbzs) \in DOMAIN fs
            /\ ZipPath(final_path(cbzs)) \notin DOMAIN fs

\* one chapter has failed, another has moved its spreads to the pooled
\* directory, and convert_volume has given up with -d set
C6_Witness ==
  /\ IsVolume
  /\ args.del_old_cbz
  /\ mpc = "exited" /\ exit = 1
  /\ \E u, v \in Units : results[u] = "false" /\ results[v] = "true"
  /\ fs = hist.fs0

----------------------------------------------------------------------------
(* C9 *)

\* n as three decimal digits
ThreeDigits(n) ==
  <<48 + ((n \div 100) % 10), 48 + ((n \div 10) % 10), 48 + (n % 10)>>

\* '<ordinal>_<page>'
EntryName(ordinal, page) == ThreeDigits(ordinal) \o <<95>> \o ThreeDigits(page)

\* the images unit i wrote
ImagesOf(i) == { written[i][k].img : k \in 1..Len(written[i]) }

\* the pooled directory, or the combined archive once it is at its path
Pool == IF mpc = "built" THEN fs[final_path(cbzs)] ELSE work[VOLDIR]

\* C9: when all n chapters succeed, whatever the order of the workers, the
\* pooled directory holds exactly the entries '<n - i + 1>_<page>' of each
\* archive i, its own spreads under them, ordinal 000 only for the shared
\* warning page, and in ascending name order the spreads of a later-listed
\* chapter before those of an earlier-listed one.
C9_VolumeNames ==
  (IsVolume /\ mpc \in {"collected", "warned", "zipped", "built"}) =>
    LET n == Len(cbzs)
        spreads == UNION { { EntryName(n - i + 1, k) :
                               k \in 1..Ceil2(PageCount(i)) } : i \in Units }
        warning == IF mpc = "collected" \/ args.skip_warning_page
                   THEN {} ELSE {EntryName(0, 0)}
    IN  /\ DOMAIN Pool = spreads \cup warning
        /\ \A i \in Units : \A k \in 1..Ceil2(PageCount(i)) :
             Pool[EntryName(n - i + 1, k)] = written[i][k].img
        /\ \A nm \in DOMAIN Pool :
             SubSeq(nm, 1, 3) = ThreeDigits(0)
               => /\ nm = EntryName(0, 0)
                  /\ Pool[nm].px = <<1>>
                  /\ \A other \in (DOMAIN Pool) \ {nm} : LexLess(nm, other)
        /\ \A i, j \in Units : \A a, b \in DOMAIN Pool :
             (i < j /\ Pool[a] \in ImagesOf(j) /\ Pool[b] \in ImagesOf(i))
               => LexLess(a, b)

\* three chapters have been pooled and the combined archive is at its path,
\* the shared warning page in front
C9_Witness ==
  /\ IsVolume
  /\ Len(cbzs) = 3
  /\ mpc = "built"
  /\ EntryName(0, 0) \in DOMAIN fs[final_path(cbzs)]
  /\ Cardinality(DOMAIN fs[final_path(cbzs)]) > 4

====
